---- MODULE Spec2Model ----
(***************************************************************************)
(* Model of the medication retrieval core: the ingest pipeline             *)
(* (src/ingest/ingest_all_json.py, src/ingest/ingest_basic.py), the        *)
(* Streamlit re-indexer (src/langchain_version/app.py) and the search API  *)
(* (src/api/server.py).                                                    *)
(*                                                                         *)
(* Strings that the code inspects character by character (label texts,     *)
(* display names) are sequences of one-character strings. Strings that the *)
(* code only compares or copies (identifiers, aliases, section names) are  *)
(* TLA+ strings.                                                           *)
(***************************************************************************)
EXTENDS Integers, Sequences, FiniteSets, TLC

\* ------------------------------------------------------------------ bounds

\* Longest text handed to split_text in the chunker specification.
MaxTextLen == 5
\* Largest max_length handed to split_text in the chunker specification.
MaxMaxLength == 3
\* The ingest pipeline calls split_text(text) with the default max_length,
\* 1000 in the source; the model scales the default down so that the label
\* texts of the catalogue below split into several chunks.
DefaultMaxLength == 3

\* ------------------------------------------------------- character strings

Whitespace == {" "}
SentenceDelims == {".", "!", "?"}
\* The characters of the texts the chunker specification enumerates.
TextAlphabet == {"a", " ", ".", "!", "?"}

RECURSIVE Concat(_)
\* "".join(parts)
Concat(ss) == IF ss = <<>> THEN <<>> ELSE Head(ss) \o Concat(Tail(ss))

RECURSIVE LStrip(_)
LStrip(s) == IF s # <<>> /\ Head(s) \in Whitespace THEN LStrip(Tail(s)) ELSE s

RECURSIVE RStrip(_)
RStrip(s) ==
    IF s # <<>> /\ s[Len(s)] \in Whitespace
    THEN RStrip(SubSeq(s, 1, Len(s) - 1))
    ELSE s

\* str.strip(): whitespace removed at both ends.
Strip(s) == RStrip(LStrip(s))

RECURSIVE ReSplit(_, _)
\* re.split over a single-character class: the text is cut at every character
\* of delims; the delimiters are not part of the pieces, and n delimiters
\* give n + 1 pieces (empty pieces included).
ReSplit(delims, s) ==
    IF \A i \in 1..Len(s) : s[i] \notin delims
    THEN <<s>>
    ELSE LET i == CHOOSE j \in 1..Len(s) :
                      /\ s[j] \in delims
                      /\ \A h \in 1..(j - 1) : s[h] \notin delims
         IN  <<SubSeq(s, 1, i - 1)>> \o ReSplit(delims, SubSeq(s, i + 1, Len(s)))

\* ------------------------------------------------------------- split_text

RECURSIVE SplitLoop(_, _, _, _)
\* The for loop of split_text over the pieces of re.split(r'[.!?]', text),
\* and the flush of the last part after it.
SplitLoop(sentences, max_length, parts, current_part) ==
    IF sentences = <<>>
    THEN IF current_part # <<>>
         THEN Append(parts, Strip(current_part))
         ELSE parts
    ELSE LET sentence == Head(sentences) IN
         IF Len(current_part) + Len(sentence) <= max_length
         THEN SplitLoop(Tail(sentences), max_length, parts,
                        current_part \o sentence \o <<".">>)
         ELSE SplitLoop(Tail(sentences), max_length,
                        IF current_part # <<>>
                        THEN Append(parts, Strip(current_part))
                        ELSE parts,
                        sentence \o <<".">>)

\* Mutant of split_text: the text at or under the maximum is trimmed and an
\* empty text gives no chunk.
split_text_trimming(text, max_length) ==
    IF Len(text) <= max_length
    THEN IF Strip(text) = <<>> THEN <<>> ELSE <<Strip(text)>>
    ELSE SplitLoop(ReSplit(SentenceDelims, text), max_length, <<>>, <<>>)

split_text(text, max_length) ==
    IF Len(text) <= max_length
    THEN <<text>>
    ELSE SplitLoop(ReSplit(SentenceDelims, text), max_length, <<>>, <<>>)

\* ---------------------------------------------------- extract_ingredients

\* The separator class of re.split(r'[,·\s]+', match).
IngredientSeparators == {",", "·"} \cup Whitespace

RECURSIVE FindGroups(_)
\* re.findall(r'\(([^)]+)\)', item_name): the contents of the parenthesized
\* groups, leftmost first, scanning on after each match. A "(" matches when
\* the next ")" after it leaves at least one character between them.
FindGroups(s) ==
    LET opens == {i \in 1..Len(s) :
                    /\ s[i] = "("
                    /\ \E j \in (i + 2)..Len(s) :
                          /\ s[j] = ")"
                          /\ \A h \in (i + 1)..(j - 1) : s[h] # ")"}
    IN  IF opens = {}
        THEN <<>>
        ELSE LET i == CHOOSE x \in opens : \A y \in opens : x <= y
                 j == CHOOSE x \in (i + 2)..Len(s) :
                          /\ s[x] = ")"
                          /\ \A h \in (i + 1)..(x - 1) : s[h] # ")"
             IN  <<SubSeq(s, i + 1, j - 1)>> \o FindGroups(SubSeq(s, j + 1, Len(s)))

RECURSIVE SplitRuns(_, _)
\* re.split over runs of separators, with the empty pieces dropped as the
\* list comprehension "[p.strip() for p in parts if p.strip()]" drops them.
SplitRuns(seps, s) ==
    IF s = <<>> THEN <<>>
    ELSE IF Head(s) \in seps THEN SplitRuns(seps, Tail(s))
    ELSE LET stops == {i \in 1..Len(s) : s[i] \in seps}
             n == IF stops = {} THEN Len(s)
                  ELSE (CHOOSE x \in stops : \A y \in stops : x <= y) - 1
         IN  <<Strip(SubSeq(s, 1, n))>> \o SplitRuns(seps, SubSeq(s, n + 1, Len(s)))

RECURSIVE ExtendAll(_)
ExtendAll(matches) ==
    IF matches = <<>> THEN <<>>
    ELSE SplitRuns(IngredientSeparators, Head(matches)) \o ExtendAll(Tail(matches))

\* Mutant of extract_ingredients: only the first parenthesized group is
\* read.
extract_ingredients_first_group(item_name) ==
    LET matches == FindGroups(item_name)
    IN  IF matches = <<>> THEN <<>>
        ELSE SplitRuns(IngredientSeparators, Head(matches))

extract_ingredients(item_name) == ExtendAll(FindGroups(item_name))

\* ------------------------------------------------------------ source data

\* Python's None, for optional request fields and absent JSON keys.
None == "<None>"

\* SECTION_MAPPING, in the order of the dict literal.
SECTION_MAPPING ==
    << <<"efcyQesitm", "efficacy">>,
       <<"useMethodQesitm", "dosage">>,
       <<"atpnWarnQesitm", "warnings">>,
       <<"atpnQesitm", "precautions">>,
       <<"intrcQesitm", "interactions">>,
       <<"seQesitm", "side_effects">>,
       <<"depositMethodQesitm", "storage">> >>

\* The closed section enumeration served by GET /sections.
Sections ==
    {"efficacy", "dosage", "warnings", "precautions", "interactions",
     "side_effects", "storage"}

\* The keys of a source record that hold free text: the seven label fields
\* and one field that SECTION_MAPPING does not map.
LabelFields == {SECTION_MAPPING[i][1] : i \in 1..Len(SECTION_MAPPING)}
SourceFields == LabelFields \cup {"itemImage"}

NoText == [f \in SourceFields |-> <<>>]

TShort == <<"a">>
TShort2 == <<"b">>
TLong == <<"a", ".", "b", ".", "c">>

\* The source records the batches are built from. A field with the empty
\* text stands for a key that is absent or empty ("if text:" treats both alike).
RecA ==
    [itemSeq |-> "1", itemName |-> <<"T", "(", "x", ")">>, entpName |-> "E1",
     updateDe |-> <<"2024-01-01", "00:00:00">>,
     fields |-> [NoText EXCEPT !["efcyQesitm"] = TLong,
                               !["intrcQesitm"] = TShort,
                               !["itemImage"] = TShort]]
\* Item 1 after an update of the label: another name, a shorter text.
RecA2 ==
    [itemSeq |-> "1", itemName |-> <<"T", "(", "y", ")">>, entpName |-> "E1",
     updateDe |-> <<"2024-06-01", "00:00:00">>,
     fields |-> [NoText EXCEPT !["efcyQesitm"] = TShort2]]
RecB ==
    [itemSeq |-> "2", itemName |-> <<"G", "(", "x", ",", "x", ")">>,
     entpName |-> None, updateDe |-> <<>>,
     fields |-> [NoText EXCEPT !["useMethodQesitm"] = TShort]]
\* A record with no item identifier.
RecNoId ==
    [itemSeq |-> "", itemName |-> <<"P">>, entpName |-> "E3", updateDe |-> <<>>,
     fields |-> [NoText EXCEPT !["efcyQesitm"] = TShort]]

Catalogue == {RecA, RecB, RecNoId}
AliasNames == <<"ty", "gb", "pz", "ph">>

\* Most alias groups in a batch, and most records in a batch.
MaxGroups == 2
MaxRecords == 3

RECURSIVE SeqsUpTo(_, _)
\* The sequences over S of length at most n.
SeqsUpTo(S, n) ==
    IF n = 0 THEN {<<>>}
    ELSE LET shorter == SeqsUpTo(S, n - 1)
         IN  shorter \cup {Append(q, x) : q \in shorter, x \in S}

RECURSIVE Bodies(_, _)
\* The sequences of at most g non-empty record lists with at most r records
\* in all.
Bodies(g, r) ==
    IF g = 0 \/ r = 0 THEN {<<>>}
    ELSE {<<>>} \cup
         UNION {{<<h>> \o t : t \in Bodies(g - 1, r - Len(h))} :
                    h \in SeqsUpTo(Catalogue, r) \ {<<>>}}

\* all_data: the JSON object of the data file, alias -> list of records, as
\* the sequence of its (alias, items) pairs in file order.
Batches ==
    {[g \in 1..Len(body) |-> [alias |-> AliasNames[g], items |-> body[g]]] :
        body \in Bodies(MaxGroups, MaxRecords) \ {<<>>}}

\* The data file after the label of item 1 was updated at the source.
UpdatedRecord(item) == IF item = RecA THEN RecA2 ELSE item
UpdatedBatch(b) ==
    [g \in 1..Len(b) |->
        [alias |-> b[g].alias,
         items |-> [i \in 1..Len(b[g].items) |-> UpdatedRecord(b[g].items[i])]]]

\* ------------------------------------------------------ relational store

\* The four tables of the PostgreSQL schema, each the sequence of its rows
\* in insertion order.
EmptyTables == [products |-> <<>>, product_aliases |-> <<>>,
                product_ingredients |-> <<>>, product_sections |-> <<>>]

\* The rows of a table, as a set.
Rows(table) == {table[i] : i \in 1..Len(table)}

\* Two rows conflict on a key, a set of columns, when they agree on each
\* column of the key.
SameKey(key, r, row) == \A c \in key : r[c] = row[c]

\* INSERT ... ON CONFLICT (key) DO UPDATE SET every other column: the row
\* with the key of the new row is replaced where it stands, and the new row
\* is appended when no row has its key.
InsertOrUpdate(table, key, row) ==
    IF \E i \in 1..Len(table) : SameKey(key, table[i], row)
    THEN [i \in 1..Len(table) |->
            IF SameKey(key, table[i], row) THEN row ELSE table[i]]
    ELSE Append(table, row)

\* Mutant of InsertOrNothing: a plain INSERT into a table without the
\* conflict clause.
InsertAlways(table, key, row) == Append(table, row)

\* INSERT ... ON CONFLICT (key) DO NOTHING
InsertOrNothing(table, key, row) ==
    IF \E i \in 1..Len(table) : SameKey(key, table[i], row)
    THEN table
    ELSE Append(table, row)

\* data.get("updateDe")[:10] if data.get("updateDe") else None: the date
\* part of a "YYYY-MM-DD hh:mm:ss" stamp. A stamp is the sequence of its
\* date and time parts, a date the one-element sequence of its date part,
\* and the empty sequence stands for None.
First10(stamp) == IF stamp = <<>> THEN <<>> ELSE <<stamp[1]>>

\* Mutant of upsert_product: the statement replaces the content of the
\* products table by the one row.
upsert_product_single(tables, item_seq, data) ==
    [tables EXCEPT !.products =
        <<[item_seq |-> item_seq, entp_name |-> data.entpName,
           item_name |-> data.itemName,
           item_image |-> data.fields["itemImage"],
           update_de |-> First10(data.updateDe), raw_json |-> data]>>]

\* INSERT INTO products ... ON CONFLICT (item_seq) DO UPDATE SET ...
upsert_product(tables, item_seq, data) ==
    [tables EXCEPT !.products =
        InsertOrUpdate(@, {"item_seq"},
            [item_seq |-> item_seq, entp_name |-> data.entpName,
             item_name |-> data.itemName,
             item_image |-> data.fields["itemImage"],
             update_de |-> First10(data.updateDe), raw_json |-> data])]

\* INSERT INTO product_aliases ... ON CONFLICT (alias, item_seq) DO NOTHING
insert_product_alias(tables, alias, item_seq) ==
    [tables EXCEPT !.product_aliases =
        InsertOrNothing(@, {"alias", "item_seq"},
            [alias |-> alias, item_seq |-> item_seq])]

RECURSIVE InsertIngredients(_, _, _)
InsertIngredients(table, item_seq, ingredients) ==
    IF ingredients = <<>> THEN table
    ELSE InsertIngredients(
            InsertOrNothing(table, {"item_seq", "ingredient"},
                [item_seq |-> item_seq, ingredient |-> Head(ingredients)]),
            item_seq, Tail(ingredients))

\* INSERT INTO product_ingredients ... ON CONFLICT (item_seq, ingredient)
\* DO NOTHING, for ingredient in ingredients.
insert_product_ingredients(tables, item_seq, ingredients) ==
    [tables EXCEPT !.product_ingredients =
        InsertIngredients(@, item_seq, ingredients)]

RECURSIVE UpsertSections(_, _, _, _, _)
UpsertSections(table, item_seq, section, text_parts, i) ==
    IF i > Len(text_parts) THEN table
    ELSE UpsertSections(
            InsertOrUpdate(table, {"item_seq", "section", "part_idx"},
                [item_seq |-> item_seq, section |-> section,
                 part_idx |-> i - 1, text |-> text_parts[i]]),
            item_seq, section, text_parts, i + 1)

RECURSIVE AppendSections(_, _, _, _, _)
AppendSections(table, item_seq, section, text_parts, i) ==
    IF i > Len(text_parts) THEN table
    ELSE AppendSections(
            Append(table, [item_seq |-> item_seq, section |-> section,
                           part_idx |-> i - 1, text |-> text_parts[i]]),
            item_seq, section, text_parts, i + 1)

\* Mutant of upsert_product_sections: a plain INSERT into a table without
\* the conflict clause, so every ingest adds the rows again.
upsert_product_sections_plain_insert(tables, item_seq, section, text_parts) ==
    [tables EXCEPT !.product_sections =
        AppendSections(@, item_seq, section, text_parts, 1)]

\* INSERT INTO product_sections ... ON CONFLICT (item_seq, section, part_idx)
\* DO UPDATE SET text = EXCLUDED.text, for part_idx, text in enumerate(...).
upsert_product_sections(tables, item_seq, section, text_parts) ==
    [tables EXCEPT !.product_sections =
        UpsertSections(@, item_seq, section, text_parts, 1)]

\* ----------------------------------------------------------- vector index

\* The embedding provider's vector for a text; the model keeps which text
\* was embedded.
Embed(text) == <<"embedding", text>>

\* f"{a}_{b}_{c}"
FormatId(a, b, c) == <<a, "_", b, "_", c>>

\* payload.get(key, default)
PayloadGet(payload, key, default) ==
    IF key \in DOMAIN payload THEN payload[key] ELSE default

\* client.upsert(collection_name, points=[...]): a point replaces the stored
\* point with the same id.
QdrantUpsert(points, new) ==
    {p \in points : \A n \in new : n.id # p.id} \cup new

\* Mutant of IngestPoint: the point id does not tell the parts apart.
IngestPointSameId(alias, item_seq, section, part_idx, text, ingredients, entp_name, item_name) ==
    [id |-> FormatId(item_seq, section, 0),
     vector |-> Embed(text),
     payload |-> [item_seq |-> item_seq, section |-> section,
                  part_idx |-> part_idx, entp_name |-> entp_name,
                  item_name |-> item_name, aliases |-> <<alias>>,
                  ingredients |-> ingredients, is_otc |-> TRUE,
                  update_de |-> <<"2024-12-31">>]]

\* The PointStruct that upsert_qdrant_points builds for one part.
IngestPoint(alias, item_seq, section, part_idx, text, ingredients, entp_name, item_name) ==
    [id |-> FormatId(item_seq, section, part_idx),
     vector |-> Embed(text),
     payload |-> [item_seq |-> item_seq, section |-> section,
                  part_idx |-> part_idx, entp_name |-> entp_name,
                  item_name |-> item_name, aliases |-> <<alias>>,
                  ingredients |-> ingredients, is_otc |-> TRUE,
                  update_de |-> <<"2024-12-31">>]]

RECURSIVE UpsertParts(_, _, _, _, _, _, _, _, _)
UpsertParts(points, alias, item_seq, section, text_parts, ingredients, entp_name, item_name, i) ==
    IF i > Len(text_parts) THEN points
    ELSE UpsertParts(
            QdrantUpsert(points,
                {IngestPoint(alias, item_seq, section, i - 1, text_parts[i],
                             ingredients, entp_name, item_name)}),
            alias, item_seq, section, text_parts, ingredients, entp_name,
            item_name, i + 1)

\* upsert_qdrant_points: for part_idx, text in enumerate(text_parts), embed
\* the text and upsert one point.
upsert_qdrant_points(points, alias, item_seq, section, text_parts, ingredients, entp_name, item_name) ==
    UpsertParts(points, alias, item_seq, section, text_parts, ingredients,
                entp_name, item_name, 1)

\* ------------------------------------------------- one record of the batch

\* Where the processing of a record raises: nowhere ("none"), in a
\* statement on the PostgreSQL connection ("db"; sec = 0 is the product,
\* alias and ingredient statements, sec = k the chunk rows of the k-th
\* present section), in the embedding call ("embed") or in the index upsert
\* ("upsert") of part number part of the k-th present section.
NoFail == [kind |-> "none", sec |-> 0, part |-> 0]

\* The (source field, section) pairs of SECTION_MAPPING whose text is present
\* and non-empty in the record, in mapping order.
PresentSections(item) ==
    SelectSeq(SECTION_MAPPING, LAMBDA m : item.fields[m[1]] # <<>>)

\* split_text(text): the call of the ingest loop, with the default max_length.
TextParts(item, m) == split_text(item.fields[m[1]], DefaultMaxLength)

FailPoints(item, with_qdrant) ==
    LET secs == PresentSections(item) IN
    {NoFail}
    \cup {[kind |-> "db", sec |-> k, part |-> 0] : k \in 0..Len(secs)}
    \cup IF with_qdrant
         THEN UNION {{[kind |-> kd, sec |-> k, part |-> q] :
                         kd \in {"embed", "upsert"},
                         q \in 0..(Len(TextParts(item, secs[k])) - 1)} :
                     k \in 1..Len(secs)}
         ELSE {}

RECURSIVE SectionLoop(_, _, _, _, _, _, _)
\* "for old_section, new_section in SECTION_MAPPING.items()" of main, from
\* the k-th present section on. st holds the tables of the open transaction
\* and the points of the collection; the loop stops where fail says that a
\* call raises.
SectionLoop(st, alias, item, ingredients, k, fail, with_qdrant) ==
    LET secs == PresentSections(item) IN
    IF k > Len(secs) THEN st
    ELSE
    LET new_section == secs[k][2]
        text_parts == TextParts(item, secs[k])
    IN
    IF fail.kind = "db" /\ fail.sec = k
    THEN [st EXCEPT !.ok = FALSE, !.db_error = TRUE]
    ELSE
    LET tables == upsert_product_sections(st.tables, item.itemSeq,
                                          new_section, text_parts)
    IN
    IF ~ with_qdrant
    THEN SectionLoop([st EXCEPT !.tables = tables], alias, item, ingredients,
                     k + 1, fail, with_qdrant)
    ELSE IF fail.kind \in {"embed", "upsert"} /\ fail.sec = k
    THEN [st EXCEPT !.tables = tables, !.ok = FALSE,
             !.points = upsert_qdrant_points(@, alias, item.itemSeq,
                            new_section, SubSeq(text_parts, 1, fail.part),
                            ingredients, item.entpName, item.itemName),
             !.embed_calls = @ + fail.part + 1]
    ELSE SectionLoop(
            [st EXCEPT !.tables = tables,
                !.points = upsert_qdrant_points(@, alias, item.itemSeq,
                               new_section, text_parts, ingredients,
                               item.entpName, item.itemName),
                !.embed_calls = @ + Len(text_parts)],
            alias, item, ingredients, k + 1, fail, with_qdrant)

\* The try block of main for one record: product, alias, ingredients, then
\* the sections. The result says whether the block ran to its end (ok) and
\* whether a statement on the connection raised (db_error).
ProcessItem(tables, points, alias, item, fail, with_qdrant) ==
    LET st0 == [tables |-> tables, points |-> points, ok |-> TRUE,
                db_error |-> FALSE, embed_calls |-> 0]
    IN
    IF fail.kind = "db" /\ fail.sec = 0
    THEN [st0 EXCEPT !.ok = FALSE, !.db_error = TRUE]
    ELSE
    LET t1 == upsert_product(tables, item.itemSeq, item)
        t2 == insert_product_alias(t1, alias, item.itemSeq)
        ingredients == extract_ingredients(item.itemName)
        t3 == IF ingredients # <<>>
              THEN insert_product_ingredients(t2, item.itemSeq, ingredients)
              ELSE t2
    IN  SectionLoop([st0 EXCEPT !.tables = t3], alias, item, ingredients, 1,
                    fail, with_qdrant)

\* ------------------------------------------------------------------ state

\* Most ingest runs, most calls that raise, and most runs of the re-indexer
\* in one behaviour.
MaxRuns == 2
MaxFailures == 1
MaxReindex == 1

\* limited_data = dict(list(all_data.items())[:5]) of ingest_basic.
BasicGroupLimit == 5

VARIABLES
    data_file,    \* the content of ../all_drug_data.json
    pc,           \* "idle", or "run" while an ingest main() is in its loops
    run,          \* the locals of the running (or last) ingest main(), and
                  \* the records at which a call raised (raised)
    conn,         \* its PostgreSQL connection: the tables as the open
                  \* transaction sees them, and whether a statement failed in it
    db,           \* the committed tables
    qdrant,       \* the product_sections collection: whether it exists, its points
    log,          \* one entry per ingest run, appended when the run ends
    faults,       \* calls that raised so far
    reindex_runs, \* runs of reindex_qdrant_data so far
    resp,         \* the response of the search request handled in the last step
    chunker,      \* the call of split_text under test: its arguments and result
    extractor,    \* the call of extract_ingredients under test
    session       \* the Streamlit session: chat_history, the clock read by
                  \* datetime.now(), and the last question run

vars == <<data_file, pc, run, conn, db, qdrant, log, faults, reindex_runs,
          resp, chunker, extractor, session>>

NoResp == [status |-> 0]

\* No question was asked in this session state.
NoQuestion == [asked |-> FALSE]

\* initialize_session_state: chat_history = [].
NoSession == [chat_history |-> <<>>, now |-> 0, last |-> NoQuestion]

\* The dimension of the vectors of the collection.
VectorSize == 1536

\* The index before the collection product_sections is created.
NoCollection == [exists |-> FALSE, points |-> {}, size |-> 0, distance |-> ""]
\* No call of extract_ingredients is under test.
NoExtract == [pending |-> FALSE, called |-> FALSE, item_name |-> <<>>,
              ingredients |-> <<>>]

NoCall == [pending |-> FALSE, called |-> FALSE, text |-> <<>>, max_length |-> 0,
           parts |-> <<>>]
NoRun == [mode |-> "none", recreate |-> FALSE, all_data |-> <<>>, gi |-> 1,
          ri |-> 1, processed_count |-> 0, embed_calls |-> 0, raised |-> {},
          reindex_at_start |-> 0]

InitWith(batches) ==
    /\ data_file \in batches
    /\ pc = "idle"
    /\ run = NoRun
    /\ conn = [tables |-> EmptyTables, failed |-> FALSE]
    /\ db = EmptyTables
    /\ qdrant = NoCollection
    /\ log = <<>>
    /\ faults = 0
    /\ reindex_runs = 0
    /\ resp = NoResp
    /\ session = NoSession

Init == InitWith(Batches) /\ chunker = NoCall /\ extractor = NoExtract

\* ------------------------------------------------------------ ingest main

\* Mutant of create_qdrant_collection: the collection is deleted and created
\* anew whatever the flag says.
create_qdrant_collection_recreating(q, recreate) ==
    [exists |-> TRUE, points |-> {}, size |-> VectorSize, distance |-> "Cosine"]

\* create_qdrant_collection: under RECREATE_QDRANT the collection is deleted
\* first; then it is created, with VectorParams(size=1536,
\* distance=Distance.COSINE), unless get_collection finds it.
create_qdrant_collection(q, recreate) ==
    LET q1 == IF recreate THEN NoCollection ELSE q
    IN  IF q1.exists THEN q1
        ELSE [exists |-> TRUE, points |-> {}, size |-> VectorSize,
              distance |-> "Cosine"]

\* The groups main() iterates over: all of them in ingest_all_json, the
\* first five in ingest_basic.
GroupsOf(mode, all_data) ==
    IF mode = "basic" /\ Len(all_data) > BasicGroupLimit
    THEN SubSeq(all_data, 1, BasicGroupLimit)
    ELSE all_data

\* main() up to the loops: the data file is loaded, the connections are
\* opened and (ingest_all_json) the collection is bootstrapped.
StartRun(mode, recreate) ==
    /\ pc = "idle"
    /\ Len(log) < MaxRuns
    /\ pc' = "run"
    /\ run' = [mode |-> mode, recreate |-> recreate,
               all_data |-> GroupsOf(mode, data_file), gi |-> 1, ri |-> 1,
               processed_count |-> 0, embed_calls |-> 0, raised |-> {},
               reindex_at_start |-> reindex_runs]
    /\ conn' = [tables |-> db, failed |-> FALSE]
    /\ qdrant' = IF mode = "all" THEN create_qdrant_collection(qdrant, recreate)
                 ELSE qdrant
    /\ resp' = NoResp
    /\ UNCHANGED <<data_file, db, log, faults, reindex_runs, chunker,
                   extractor, session>>

InGroup == pc = "run" /\ run.gi <= Len(run.all_data)

\* Mutant of ProcessRecord: a record without item identifier is processed
\* like any other.
ProcessRecordNoSkip ==
    /\ InGroup
    /\ run.ri <= Len(run.all_data[run.gi].items)
    /\ LET alias == run.all_data[run.gi].alias
           item == run.all_data[run.gi].items[run.ri]
       IN
       IF conn.failed
       THEN /\ run' = [run EXCEPT !.ri = @ + 1]
            /\ UNCHANGED <<conn, qdrant, faults>>
       ELSE \E fail \in FailPoints(item, run.mode = "all") :
            /\ fail = NoFail \/ faults < MaxFailures
            /\ LET res == ProcessItem(conn.tables, qdrant.points, alias, item,
                                      fail, run.mode = "all")
                   n == IF fail = NoFail THEN 0 ELSE 1
               IN
               /\ conn' = [tables |-> res.tables, failed |-> res.db_error]
               /\ qdrant' = [qdrant EXCEPT !.points = res.points]
               /\ faults' = faults + n
               /\ run' = [run EXCEPT
                            !.ri = @ + 1,
                            !.processed_count = IF res.ok THEN @ + 1 ELSE @,
                            !.embed_calls = @ + res.embed_calls,
                            !.raised = IF fail = NoFail THEN @
                                       ELSE @ \cup {[gi |-> run.gi, ri |-> run.ri,
                                                     kind |-> fail.kind]}]
    /\ resp' = NoResp
    /\ UNCHANGED <<data_file, pc, db, log, reindex_runs, chunker,
                   extractor, session>>

\* One iteration of "for item in items": the record is skipped when it has
\* no itemSeq; otherwise the try block runs, and an exception ends it at the
\* record boundary. A statement on a connection whose transaction has
\* already failed raises at once.
ProcessRecord ==
    /\ InGroup
    /\ run.ri <= Len(run.all_data[run.gi].items)
    /\ LET alias == run.all_data[run.gi].alias
           item == run.all_data[run.gi].items[run.ri]
       IN
       IF item.itemSeq = ""
       THEN /\ run' = [run EXCEPT !.ri = @ + 1]
            /\ UNCHANGED <<conn, qdrant, faults>>
       ELSE IF conn.failed
       THEN /\ run' = [run EXCEPT !.ri = @ + 1]
            /\ UNCHANGED <<conn, qdrant, faults>>
       ELSE \E fail \in FailPoints(item, run.mode = "all") :
            /\ fail = NoFail \/ faults < MaxFailures
            /\ LET res == ProcessItem(conn.tables, qdrant.points, alias, item,
                                      fail, run.mode = "all")
                   n == IF fail = NoFail THEN 0 ELSE 1
               IN
               /\ conn' = [tables |-> res.tables, failed |-> res.db_error]
               /\ qdrant' = [qdrant EXCEPT !.points = res.points]
               /\ faults' = faults + n
               /\ run' = [run EXCEPT
                            !.ri = @ + 1,
                            !.processed_count = IF res.ok THEN @ + 1 ELSE @,
                            !.embed_calls = @ + res.embed_calls,
                            !.raised = IF fail = NoFail THEN @
                                       ELSE @ \cup {[gi |-> run.gi, ri |-> run.ri,
                                                     kind |-> fail.kind]}]
    /\ resp' = NoResp
    /\ UNCHANGED <<data_file, pc, db, log, reindex_runs, chunker,
                   extractor, session>>

\* conn.commit() after the records of a group: the open transaction is
\* made durable, or rolled back when a statement failed in it. After the
\* last group main() commits once more, closes the connection and returns.
CommitGroup ==
    /\ InGroup
    /\ run.ri > Len(run.all_data[run.gi].items)
    /\ LET committed == IF conn.failed THEN db ELSE conn.tables IN
       /\ db' = committed
       /\ conn' = [tables |-> committed, failed |-> FALSE]
       /\ run' = [run EXCEPT !.gi = @ + 1, !.ri = 1]
       /\ IF run.gi = Len(run.all_data)
          THEN /\ pc' = "idle"
               /\ log' = Append(log,
                     [mode |-> run.mode, recreate |-> run.recreate,
                      all_data |-> run.all_data, raised |-> run.raised,
                      processed_count |-> run.processed_count,
                      reindexed |-> reindex_runs # run.reindex_at_start,
                      reindex_runs |-> reindex_runs,
                      db |-> committed, points |-> qdrant.points])
          ELSE UNCHANGED <<pc, log>>
    /\ resp' = NoResp
    /\ UNCHANGED <<data_file, qdrant, faults, reindex_runs, chunker,
                   extractor, session>>

\* The label of item 1 is updated at the source and the data file is
\* fetched again, between two runs.
LabelUpdate ==
    /\ pc = "idle"
    /\ UpdatedBatch(data_file) # data_file
    /\ data_file' = UpdatedBatch(data_file)
    /\ resp' = NoResp
    /\ UNCHANGED <<pc, run, conn, db, qdrant, log, faults, reindex_runs, chunker,
                   extractor, session>>

\* ---------------------------------------------------- reindex_qdrant_data

\* The sections dict of reindex_qdrant_data: section name and source field,
\* in the order of the dict literal.
REINDEX_SECTIONS ==
    << <<"efficacy", "efcyQesitm">>,
       <<"usage", "useMethodQesitm">>,
       <<"warning", "atpnWarnQesitm">>,
       <<"precaution", "atpnQesitm">>,
       <<"interaction", "intrcQesitm">>,
       <<"side_effect", "seQesitm">>,
       <<"storage", "depositMethodQesitm">> >>

RECURSIVE AllItems(_)
\* all_items: every record of every list of the file, with the key of its
\* list appended to its (absent) aliases.
AllItems(data) ==
    IF data = <<>> THEN <<>>
    ELSE [i \in 1..Len(Head(data).items) |->
             [item |-> Head(data).items[i], aliases |-> <<Head(data).alias>>]]
         \o AllItems(Tail(data))

\* The point that reindex_qdrant_data upserts for one section of one item.
\* item.get('entpName', '') gives '' for an absent key.
ReindexPoint(entry, section_name, section_text, uploaded_count) ==
    [id |-> FormatId(entry.item.itemSeq, section_name, uploaded_count),
     vector |-> Embed(section_text),
     payload |-> [text |-> section_text, item_name |-> entry.item.itemName,
                  entp_name |-> IF entry.item.entpName = None THEN ""
                                ELSE entry.item.entpName,
                  section |-> section_name, section_name |-> section_name,
                  aliases |-> entry.aliases, ingredients |-> <<>>,
                  update_de |-> entry.item.updateDe, is_otc |-> FALSE]]

RECURSIVE ReindexSections(_, _, _, _)
\* "for section_name, section_text in sections.items()" for one item, from
\* the k-th section on; fail_sec is the section at which the embedding or
\* the upsert raises (0: none), which ends the item.
ReindexSections(st, entry, k, fail_sec) ==
    IF k > Len(REINDEX_SECTIONS) THEN st
    ELSE
    LET section_name == REINDEX_SECTIONS[k][1]
        section_text == Strip(entry.item.fields[REINDEX_SECTIONS[k][2]])
    IN
    IF section_text = <<>>
    THEN ReindexSections(st, entry, k + 1, fail_sec)
    ELSE IF k = fail_sec \/ ~ st.exists
    THEN st
    ELSE ReindexSections(
            [st EXCEPT
                !.points = QdrantUpsert(@,
                    {ReindexPoint(entry, section_name, section_text,
                                  st.uploaded_count)}),
                !.uploaded_count = @ + 1],
            entry, k + 1, fail_sec)

RECURSIVE ReindexItems(_, _, _, _, _)
\* "for i, item in enumerate(items_to_process)": an item whose efficacy text
\* is empty is skipped, and an exception ends the item, not the loop.
ReindexItems(st, items, i, fail_item, fail_sec) ==
    IF i > Len(items) THEN st
    ELSE IF Strip(items[i].item.fields["efcyQesitm"]) = <<>>
    THEN ReindexItems(st, items, i + 1, fail_item, fail_sec)
    ELSE ReindexItems(
            ReindexSections(st, items[i], 1,
                            IF i = fail_item THEN fail_sec ELSE 0),
            items, i + 1, fail_item, fail_sec)

\* The handler of the re-index button: every section of every item of the
\* data file is embedded and upserted, unchunked.
Reindex(fail_item, fail_sec) ==
    /\ pc = "idle"
    /\ reindex_runs < MaxReindex
    /\ (fail_item = 0) = (fail_sec = 0)
    /\ fail_item = 0 \/ faults < MaxFailures
    /\ LET items == AllItems(data_file)
           st == ReindexItems([points |-> qdrant.points,
                               exists |-> qdrant.exists, uploaded_count |-> 0],
                              items, 1, fail_item, fail_sec)
       IN  qdrant' = [qdrant EXCEPT !.points = st.points]
    /\ faults' = IF fail_item = 0 THEN faults ELSE faults + 1
    /\ reindex_runs' = reindex_runs + 1
    /\ resp' = NoResp
    /\ UNCHANGED <<data_file, pc, run, conn, db, log, chunker,
                   extractor, session>>

\* ----------------------------------------------------------- search API

\* Largest k of a search request.
MaxK == 2

\* An Optional[str] field of SearchRequest: absent (None) or a string.
Absent == [some |-> FALSE]
Some(v) == [some |-> TRUE, val |-> v]

\* Python truthiness of an optional string: None and the empty string are
\* falsy. Section names and aliases are strings, ingredients are character
\* sequences, so the empty value is given.
Truthy(opt, empty) == opt.some /\ opt.val # empty

\* The requests the model sends.
Requests ==
    [query : {<<"a">>},
     section : {Absent, Some(""), Some("efficacy"), Some("dosage")},
     alias : {Absent, Some(""), Some("ty"), Some("gb")},
     ingredient : {Absent, Some(<<"x">>)},
     k : -1..MaxK]

\* Mutant of build_filter: the conditions are alternatives (should), not a
\* conjunction (must).
build_filter_should(section, alias, ingredient) ==
    LET conditions ==
            (IF Truthy(section, "")
             THEN <<[key |-> "section", match |-> "value", value |-> section.val]>>
             ELSE <<>>)
            \o (IF Truthy(alias, "")
                THEN <<[key |-> "aliases", match |-> "any", value |-> alias.val]>>
                ELSE <<>>)
            \o (IF Truthy(ingredient, <<>>)
                THEN <<[key |-> "ingredients", match |-> "any", value |-> ingredient.val]>>
                ELSE <<>>)
    IN  IF conditions = <<>>
        THEN [none |-> TRUE, must |-> <<>>, should |-> <<>>]
        ELSE [none |-> FALSE, must |-> <<>>, should |-> conditions]

\* build_filter: one condition per truthy argument, None when there is no
\* condition, Filter(must=conditions) otherwise.
build_filter(section, alias, ingredient) ==
    LET conditions ==
            (IF Truthy(section, "")
             THEN <<[key |-> "section", match |-> "value", value |-> section.val]>>
             ELSE <<>>)
            \o (IF Truthy(alias, "")
                THEN <<[key |-> "aliases", match |-> "any", value |-> alias.val]>>
                ELSE <<>>)
            \o (IF Truthy(ingredient, <<>>)
                THEN <<[key |-> "ingredients", match |-> "any", value |-> ingredient.val]>>
                ELSE <<>>)
    IN  IF conditions = <<>>
        THEN [none |-> TRUE, must |-> <<>>, should |-> <<>>]
        ELSE [none |-> FALSE, must |-> conditions, should |-> <<>>]

\* The index's reading of one FieldCondition: MatchValue compares the
\* payload field with the value, MatchAny(any=[v]) asks whether v is an
\* element of the payload's list.
Holds(cond, payload) ==
    /\ cond.key \in DOMAIN payload
    /\ IF cond.match = "value"
       THEN payload[cond.key] = cond.value
       ELSE cond.value \in {payload[cond.key][i] : i \in 1..Len(payload[cond.key])}

\* The index's reading of a filter: every must condition holds, and one of
\* the should conditions when there are any.
Matches(filter, payload) ==
    /\ \A i \in 1..Len(filter.must) : Holds(filter.must[i], payload)
    /\ \/ filter.should = <<>>
       \/ \E i \in 1..Len(filter.should) : Holds(filter.should[i], payload)

\* The sequences of n distinct elements of S.
RECURSIVE Arrangements(_, _)
Arrangements(S, n) ==
    IF n = 0 THEN {<<>>}
    ELSE UNION {{<<x>> \o q : q \in Arrangements(S \ {x}, n - 1)} : x \in S}

\* What qdrant_client.search can return: the limit best points among those
\* the filter admits, best first. Which points score best is the embedding
\* provider's matter, so every choice and order is possible.
SearchHits(points, filter, limit) ==
    LET admitted == {pt \in points : Matches(filter, pt.payload)}
        n == IF Cardinality(admitted) < limit THEN Cardinality(admitted) ELSE limit
    IN  Arrangements(admitted, n)

\* SearchResult(...): pydantic rejects a None where the model declares str.
ValidResult(payload) ==
    /\ PayloadGet(payload, "item_seq", "") # None
    /\ PayloadGet(payload, "item_name", "") # None
    /\ PayloadGet(payload, "entp_name", "") # None

\* The SearchResult built from one hit.
ToResult(hit) ==
    [score |-> <<"score", hit.id>>,
     item_seq |-> PayloadGet(hit.payload, "item_seq", ""),
     section |-> PayloadGet(hit.payload, "section", ""),
     part_idx |-> PayloadGet(hit.payload, "part_idx", 0),
     item_name |-> PayloadGet(hit.payload, "item_name", ""),
     entp_name |-> PayloadGet(hit.payload, "entp_name", ""),
     aliases |-> PayloadGet(hit.payload, "aliases", <<>>),
     ingredients |-> PayloadGet(hit.payload, "ingredients", <<>>),
     is_otc |-> PayloadGet(hit.payload, "is_otc", FALSE),
     update_de |-> PayloadGet(hit.payload, "update_de", <<>>)]

\* Mutant of ToResults: the results are built in reverse order.
ToResultsReversed(hits) ==
    [i \in 1..Len(hits) |-> ToResult(hits[Len(hits) + 1 - i])]

\* "for result in search_results: ... results.append(search_result)"
ToResults(hits) == [i \in 1..Len(hits) |-> ToResult(hits[i])]

\* Mutant of Response: a failure is answered as a success.
ResponseSwallowed(request, status, upstream, embed_calls, search_calls, filter, hits, results) ==
    [status |-> IF status = 500 THEN 200 ELSE status, request |-> request,
     upstream |-> upstream,
     embed_calls |-> embed_calls, search_calls |-> search_calls,
     filter |-> filter, hits |-> hits, results |-> results,
     total |-> Len(results)]

\* The response of POST /search. upstream tells which call raised, filter is
\* what build_filter returned, hits what the index returned.
Response(request, status, upstream, embed_calls, search_calls, filter, hits, results) ==
    [status |-> status, request |-> request, upstream |-> upstream,
     embed_calls |-> embed_calls, search_calls |-> search_calls,
     filter |-> filter, hits |-> hits, results |-> results,
     total |-> Len(results)]

NoFilter == [none |-> TRUE, must |-> <<>>, should |-> <<>>]

\* The ways the index search can raise, and what the upstream services can
\* do during one request.
SearchFailures == {"search", "search_transient"}
Upstreams == {"ok", "embed"} \cup SearchFailures

\* POST /search with a valid API key. The query is embedded, the filter is
\* built and the index is searched with limit = k; any exception becomes
\* status 500. upstream says which call raises: none ("ok"), the embedding
\* call ("embed") or the index search, for a lasting reason ("search") or a
\* passing one ("search_transient"). The handler calls qdrant_client.search
\* once and does not look at the reason. A search of a collection
\* that does not exist raises; a limit below 1 is outside the index's
\* documented range, and the index either raises or returns nothing.
search_medications(request, upstream) ==
    /\ \/ /\ upstream = "embed"
          /\ resp' = Response(request, 500, upstream, 1, 0, NoFilter, <<>>, <<>>)
       \/ /\ upstream \in SearchFailures \/ (upstream = "ok" /\ ~ qdrant.exists)
          /\ resp' = Response(request, 500,
                              IF upstream = "ok" THEN "search" ELSE upstream, 1, 1,
                              build_filter(request.section, request.alias,
                                           request.ingredient), <<>>, <<>>)
       \/ /\ upstream = "ok" /\ qdrant.exists /\ request.k < 1
          /\ \E raises \in BOOLEAN :
                resp' = Response(request, IF raises THEN 500 ELSE 200,
                                 IF raises THEN "search" ELSE "ok", 1, 1,
                                 build_filter(request.section, request.alias,
                                              request.ingredient), <<>>, <<>>)
       \/ /\ upstream = "ok" /\ qdrant.exists /\ request.k >= 1
          /\ LET search_filter == build_filter(request.section, request.alias,
                                               request.ingredient)
             IN  \E hits \in SearchHits(qdrant.points, search_filter, request.k) :
                    IF \A i \in 1..Len(hits) : ValidResult(hits[i].payload)
                    THEN resp' = Response(request, 200, upstream, 1, 1,
                                          search_filter, hits, ToResults(hits))
                    ELSE resp' = Response(request, 500, upstream, 1, 1,
                                          search_filter, hits, <<>>)
    /\ UNCHANGED <<data_file, pc, run, conn, db, qdrant, log, faults,
                   reindex_runs, chunker,
                   extractor, session>>

\* ------------------------------------------------ the enumeration endpoints

\* "limit = 100" of get_aliases and get_ingredients, scaled down like
\* DefaultMaxLength so that collections on both sides of it are reached.
PageLimit == 2

\* Most pages the model follows one enumeration for.
MaxPages == 3

\* The order sorted() puts the alias names and the ingredient names in.
AliasOrder == <<"gb", "ph", "pz", "ty">>
IngredientOrder == <<<<"x">>, <<"y">>>>

\* sorted(list(values)) for a set of values
Sorted(order, values) == SelectSeq(order, LAMBDA v : v \in values)

\* qdrant_client.scroll(limit, offset): offset is the point id to start
\* from and the points come in id order. The ids the ingest writes are
\* strings, the offsets the endpoints pass are the integers 0, 100, 200...,
\* and every string id comes after every integer id: whatever the offset,
\* the page is the first limit points of the collection.
Scroll(first_page, offset, limit) == first_page

\* The values under a payload key in a set of points.
PayloadValues(points, key) ==
    UNION {{pt.payload[key][i] : i \in 1..Len(pt.payload[key])} :
              pt \in {p \in points : key \in DOMAIN p.payload}}

RECURSIVE ScrollLoop(_, _, _, _, _, _)
\* The "while True" loop of an enumeration endpoint: stop on an empty page
\* or a page shorter than the limit, otherwise raise the offset by the limit
\* and scroll again. The model leaves a loop that has run MaxPages pages.
ScrollLoop(first_page, key, offset, values, read, pages) ==
    LET results == Scroll(first_page, offset, PageLimit)
        collected == values \cup PayloadValues(results, key)
    IN  IF results = {}
        THEN [returned |-> TRUE, values |-> values, read |-> read,
              pages |-> pages + 1]
        ELSE IF Cardinality(results) < PageLimit
        THEN [returned |-> TRUE, values |-> collected,
              read |-> read \cup results, pages |-> pages + 1]
        ELSE IF pages + 1 = MaxPages
        THEN [returned |-> FALSE, values |-> collected,
              read |-> read \cup results, pages |-> pages + 1]
        ELSE ScrollLoop(first_page, key, offset + PageLimit, collected,
                        read \cup results, pages + 1)

\* The first limit points of a collection in id order: any limit of them,
\* all of them when there are fewer.
FirstPages(points) ==
    {page \in SUBSET points :
        Cardinality(page) = IF Cardinality(points) < PageLimit
                            THEN Cardinality(points) ELSE PageLimit}

\* GET /aliases and GET /ingredients with a valid API key: scroll through
\* the collection, collect the values of the payload key and return them
\* sorted. A scroll of a collection that does not exist raises, and the
\* handler answers 500. status -1 stands for a handler that is still
\* looping after MaxPages pages.
ListEndpoint(key, order) ==
    /\ IF ~ qdrant.exists
       THEN resp' = [status |-> 500, endpoint |-> key, returned |-> TRUE,
                     values |-> <<>>, read |-> {}, pages |-> 1]
       ELSE \E first_page \in FirstPages(qdrant.points) :
               LET loop == ScrollLoop(first_page, key, 0, {}, {}, 0)
               IN  resp' = [status |-> IF loop.returned THEN 200 ELSE -1,
                            endpoint |-> key, returned |-> loop.returned,
                            values |-> IF loop.returned
                                       THEN Sorted(order, loop.values)
                                       ELSE <<>>,
                            read |-> loop.read, pages |-> loop.pages]
    /\ UNCHANGED <<data_file, pc, run, conn, db, qdrant, log, faults,
                   reindex_runs, chunker,
                   extractor, session>>

get_aliases == ListEndpoint("aliases", AliasOrder)

get_ingredients == ListEndpoint("ingredients", IngredientOrder)

\* ------------------------------------------------------ API-key protection

\* The default of os.getenv("GATEWAY_READ_KEY", ...) in server.py.
DefaultReadKey == "teammates-read-key"

\* The process environment as far as the key checks read it: each variable
\* is unset or holds a key.
Environments ==
    [PROJECT_API_KEY : {Absent, Some("k1")},
     GATEWAY_READ_KEY : {Absent, Some("k2")}]

\* os.getenv(name, default)
Getenv(env, name, default) == IF env[name].some THEN env[name].val ELSE default

\* GATEWAY_READ_KEY of server.py.
GATEWAY_READ_KEY(env) == Getenv(env, "GATEWAY_READ_KEY", DefaultReadKey)

\* The x-api-key header of a request: absent, or one of the keys in use, or
\* another string.
Headers ==
    {Absent, Some("k1"), Some("k2"), Some(DefaultReadKey), Some("bad")}

\* Header(None): the value of the parameter x_api_key.
HeaderValue(header) == IF header.some THEN header.val ELSE None

\* verify_api_key of server.py: TRUE when it returns, FALSE when it raises
\* HTTPException(401).
verify_api_key(x_api_key, env) == x_api_key = GATEWAY_READ_KEY(env)

\* verify_api_key of app/main.py: the header is compared with
\* os.getenv("PROJECT_API_KEY"), which is None when the variable is unset.
main_verify_api_key(x_api_key, env) ==
    x_api_key = Getenv(env, "PROJECT_API_KEY", None)

\* The response to a request of either app whose handler was reached or
\* refused, with the calls made to the embedding service, the index and the
\* database while handling it.
KeyedResponse(app_name, endpoint, header, env, status, embed_calls, index_calls, db_calls) ==
    [status |-> status, app |-> app_name, endpoint |-> endpoint,
     header |-> header, env |-> env, embed_calls |-> embed_calls,
     index_calls |-> index_calls, db_calls |-> db_calls]

\* GET /sections with a valid API key: the fixed list of section names.
get_sections ==
    /\ resp' = [status |-> 200, endpoint |-> "/sections",
                sections |-> <<"efficacy", "dosage", "warnings", "precautions",
                               "interactions", "side_effects", "storage">>]
    /\ UNCHANGED <<data_file, pc, run, conn, db, qdrant, log, faults,
                   reindex_runs, chunker, extractor, session>>

ServerEndpoints == {"/search", "/sections", "/aliases", "/ingredients"}

\* A request to a key-protected endpoint of the search API. The dependency
\* verify_api_key runs before the handler; when it raises, the response is
\* 401 and the handler is not entered.
ServerRequest(env, endpoint, header) ==
    IF ~ verify_api_key(HeaderValue(header), env)
    THEN /\ resp' = KeyedResponse("server", endpoint, header, env, 401, 0, 0, 0)
         /\ UNCHANGED <<data_file, pc, run, conn, db, qdrant, log, faults,
                        reindex_runs, chunker, extractor, session>>
    ELSE \/ /\ endpoint = "/search"
            /\ \E request \in Requests, upstream \in Upstreams :
                  search_medications(request, upstream)
         \/ endpoint = "/sections" /\ get_sections
         \/ endpoint = "/aliases" /\ get_aliases
         \/ endpoint = "/ingredients" /\ get_ingredients

\* What the services behind the gateway app do during one request: all
\* calls succeed, or the embedding call or a database or index call raises.
GatewayUpstreams == {"ok", "embed", "backend"}

\* db_ping of app/main.py: one connection and query; any exception is 502.
db_ping(header, env, upstream) ==
    KeyedResponse("gateway", "/db/ping", header, env,
                  IF upstream = "backend" THEN 502 ELSE 200, 0, 0, 1)

\* qdrant_ping of app/main.py: one get_collections call.
qdrant_ping(header, env, upstream) ==
    KeyedResponse("gateway", "/qdrant/ping", header, env,
                  IF upstream = "backend" THEN 502 ELSE 200, 0, 1, 0)

\* embed_test of app/main.py: one embedding call, then recreate_collection,
\* upsert and search on the collection "smoketest", which is not the
\* collection of the ingest scripts; the first call that raises ends the
\* handler with 502.
embed_test(header, env, upstream) ==
    KeyedResponse("gateway", "/embed/test", header, env,
                  IF upstream = "ok" THEN 200 ELSE 502, 1,
                  CASE upstream = "ok" -> 3
                    [] upstream = "backend" -> 1
                    [] OTHER -> 0,
                  0)

GatewayEndpoints == {"/db/ping", "/qdrant/ping", "/embed/test"}

\* A request to a key-protected endpoint of the gateway app.
GatewayRequest(env, endpoint, header, upstream) ==
    /\ resp' =
          IF ~ main_verify_api_key(HeaderValue(header), env)
          THEN KeyedResponse("gateway", endpoint, header, env, 401, 0, 0, 0)
          ELSE CASE endpoint = "/db/ping" -> db_ping(header, env, upstream)
                 [] endpoint = "/qdrant/ping" -> qdrant_ping(header, env, upstream)
                 [] OTHER -> embed_test(header, env, upstream)
    /\ UNCHANGED <<data_file, pc, run, conn, db, qdrant, log, faults,
                   reindex_runs, chunker, extractor, session>>

\* ------------------------------------------------------ question workflow

\* "if len(updated_history) > 10" of update_chat_history_node, scaled down
\* like DefaultMaxLength so that a full history is reached, and the most
\* question runs of one behaviour.
HistoryLimit == 3
MaxQuestions == 5

\* The questions the model asks.
Questions == {"q1", "q2"}

\* What the index search and the language model do during one run: the
\* search returns documents with text ("hits") or none ("empty") or raises;
\* the model replies or raises.
SearchOutcomes == {"hits", "empty", "raise"}
LlmOutcomes == {"reply", "raise"}

\* initial_state of process_query.
InitialState(user_input, chat_history) ==
    [user_input |-> user_input, search_results |-> <<>>, context |-> "",
     ai_response |-> "", sources |-> <<>>, error |-> "",
     chat_history |-> chat_history, conversation_id |-> "conv"]

\* search_node: the documents found become sources and context; an
\* exception becomes the state's error and leaves the rest as it was.
search_node(state, search_outcome) ==
    CASE search_outcome = "raise" -> [state EXCEPT !.error = "search"]
      [] search_outcome = "hits" ->
            [state EXCEPT !.search_results = <<"doc">>, !.context = "text",
                          !.sources = <<"doc">>]
      [] OTHER -> [state EXCEPT !.search_results = <<>>, !.context = "",
                                !.sources = <<>>]

\* generate_response_node: without context the fixed "not found" answer,
\* otherwise the model's reply; an exception becomes the state's error.
generate_response_node(state, llm_outcome) ==
    IF state.context = ""
    THEN [state EXCEPT !.ai_response = "not found"]
    ELSE IF llm_outcome = "raise"
         THEN [state EXCEPT !.error = "generate"]
         ELSE [state EXCEPT !.ai_response = "reply"]

\* Mutant of update_chat_history_node: the history is cut to its first
\* HistoryLimit exchanges.
update_chat_history_node_oldest(state, now) ==
    LET new_message == [user |-> state.user_input,
                        assistant |-> state.ai_response, timestamp |-> now]
        updated_history == Append(state.chat_history, new_message)
    IN  [state EXCEPT !.chat_history =
            IF Len(updated_history) > HistoryLimit
            THEN SubSeq(updated_history, 1, HistoryLimit)
            ELSE updated_history]

\* update_chat_history_node: the exchange is appended and the history cut
\* to its last HistoryLimit exchanges (updated_history[-10:]). now is the
\* reading of datetime.now().
update_chat_history_node(state, now) ==
    LET new_message == [user |-> state.user_input,
                        assistant |-> state.ai_response, timestamp |-> now]
        updated_history == Append(state.chat_history, new_message)
    IN  [state EXCEPT !.chat_history =
            IF Len(updated_history) > HistoryLimit
            THEN SubSeq(updated_history,
                        Len(updated_history) - HistoryLimit + 1,
                        Len(updated_history))
            ELSE updated_history]

\* error_handler_node: a recorded error replaces the answer.
error_handler_node(state) ==
    IF state.error # ""
    THEN [state EXCEPT !.ai_response = "error"]
    ELSE state

\* create_workflow: search -> generate_response -> update_chat_history ->
\* error_handler -> END, with no conditional edge.
workflow(initial_state, search_outcome, llm_outcome, now) ==
    error_handler_node(
        update_chat_history_node(
            generate_response_node(
                search_node(initial_state, search_outcome), llm_outcome),
            now))

\* process_query: the workflow run on the session's history.
process_query(chat_history, user_input, search_outcome, llm_outcome, now) ==
    LET result == workflow(InitialState(user_input, chat_history),
                           search_outcome, llm_outcome, now)
    IN  [response |-> result.ai_response, sources |-> result.sources,
         error |-> result.error, chat_history |-> result.chat_history,
         conversation_id |-> result.conversation_id]

\* A question is sent: process_medication_question returns success with the
\* result of process_query, and main stores the returned chat_history in the
\* session. last keeps the question, the history given to the workflow and
\* the result.
AskQuestion(user_input, search_outcome, llm_outcome) ==
    /\ session.now < MaxQuestions
    /\ LET result == process_query(session.chat_history, user_input,
                                   search_outcome, llm_outcome, session.now)
       IN  session' = [chat_history |-> result.chat_history,
                       now |-> session.now + 1,
                       last |-> [asked |-> TRUE, user_input |-> user_input,
                                 given |-> session.chat_history,
                                 at |-> session.now,
                                 response |-> result.response,
                                 error |-> result.error]]
    /\ resp' = NoResp
    /\ UNCHANGED <<data_file, pc, run, conn, db, qdrant, log, faults,
                   reindex_runs, chunker, extractor>>

\* The "reset conversation" button: chat_history = [].
ClearConversation ==
    /\ session.last.asked
    /\ session' = [session EXCEPT !.chat_history = <<>>, !.last = NoQuestion]
    /\ resp' = NoResp
    /\ UNCHANGED <<data_file, pc, run, conn, db, qdrant, log, faults,
                   reindex_runs, chunker, extractor>>

\* The data files of the search specification: item 1 is listed under two
\* aliases, item 2 under one.
SearchBatches ==
    {<<[alias |-> AliasNames[1], items |-> <<RecA>>],
       [alias |-> AliasNames[2], items |-> <<RecA, RecB>>]>>}

InitSearch ==
    InitWith(SearchBatches) /\ chunker = NoCall /\ extractor = NoExtract

\* ---------------------------------------------------------- specification

\* The two ingest scripts alone.
Next ==
    \/ \E mode \in {"all", "basic"}, recreate \in BOOLEAN : StartRun(mode, recreate)
    \/ ProcessRecord
    \/ CommitGroup

Spec == Init /\ [][Next]_vars

\* The ingest scripts and the re-index button of the Streamlit app.
NextReindex ==
    \/ Next
    \/ \E fail_item \in 0..MaxRecords, fail_sec \in 0..Len(REINDEX_SECTIONS) :
          Reindex(fail_item, fail_sec)

SpecReindex == Init /\ [][NextReindex]_vars

\* The ingest scripts over a data file that changes between runs.
NextUpdate ==
    \/ Next
    \/ LabelUpdate

SpecUpdate == Init /\ [][NextUpdate]_vars

\* The ingest scripts and the search endpoint. Requests are sent one at a
\* time, while no ingest is running.
NextSearch ==
    \/ Next
    \/ /\ pc = "idle" /\ resp = NoResp
       /\ \E request \in Requests, upstream \in Upstreams :
              search_medications(request, upstream)

SpecSearch == InitSearch /\ [][NextSearch]_vars

\* ------------------------------------------------- the chunker on its own

\* The ingest scripts and the enumeration endpoints. Requests are sent one
\* at a time, while no ingest is running.
NextList ==
    \/ Next
    \/ pc = "idle" /\ resp = NoResp /\ get_aliases
    \/ pc = "idle" /\ resp = NoResp /\ get_ingredients

SpecList == Init /\ [][NextList]_vars

\* The ingest scripts and the key-protected endpoints of the two apps, under
\* every environment. Requests are sent one at a time, while no ingest is
\* running.
NextAuth ==
    \/ Next
    \/ /\ pc = "idle" /\ resp = NoResp
       /\ \E env \in Environments, endpoint \in ServerEndpoints,
             header \in Headers :
              ServerRequest(env, endpoint, header)
    \/ /\ pc = "idle" /\ resp = NoResp
       /\ \E env \in Environments, endpoint \in GatewayEndpoints,
             header \in Headers, upstream \in GatewayUpstreams :
              GatewayRequest(env, endpoint, header, upstream)

SpecAuth == InitSearch /\ [][NextAuth]_vars

\* ------------------------------------------ the question workflow on its own

InitChat ==
    /\ InitWith({<<[alias |-> AliasNames[1], items |-> <<RecA>>]>>})
    /\ chunker = NoCall
    /\ extractor = NoExtract

\* Questions of one Streamlit session, with any outcome of the search and of
\* the language model, and the reset button.
NextChat ==
    \/ \E user_input \in Questions, search_outcome \in SearchOutcomes,
          llm_outcome \in LlmOutcomes :
           AskQuestion(user_input, search_outcome, llm_outcome)
    \/ ClearConversation

SpecChat == InitChat /\ [][NextChat]_vars

\* The texts over TextAlphabet of length at most MaxTextLen.
Texts == SeqsUpTo(TextAlphabet, MaxTextLen)

\* A call split_text(text, max_length) is about to be made, for any text and
\* any positive maximum.
InitSplit ==
    /\ InitWith({<<[alias |-> AliasNames[1], items |-> <<RecA>>]>>})
    /\ chunker \in {[pending |-> TRUE, called |-> FALSE, text |-> t,
                     max_length |-> m, parts |-> <<>>] :
                       t \in Texts, m \in 1..MaxMaxLength}
    /\ extractor = NoExtract

\* The call returns.
CallSplit ==
    /\ chunker.pending
    /\ chunker' = [chunker EXCEPT
                      !.pending = FALSE,
                      !.called = TRUE,
                      !.parts = split_text(chunker.text, chunker.max_length)]
    /\ UNCHANGED <<data_file, pc, run, conn, db, qdrant, log, faults,
                   reindex_runs, resp, extractor, session>>

NextSplit == CallSplit

SpecSplit == InitSplit /\ [][NextSplit]_vars

\* ------------------------------------------------- what a batch calls for

\* --------------------------------------- the ingredient extractor on its own

\* Longest display name handed to extract_ingredients.
MaxNameLen == 6

\* The characters of the display names the extractor specification
\* enumerates.
NameAlphabet == {"x", "(", ")", ",", "·", " "}

Names == SeqsUpTo(NameAlphabet, MaxNameLen)

\* A call extract_ingredients(item_name) is about to be made, for any name.
InitExtract ==
    /\ InitWith({<<[alias |-> AliasNames[1], items |-> <<RecA>>]>>})
    /\ chunker = NoCall
    /\ extractor \in {[pending |-> TRUE, called |-> FALSE, item_name |-> name,
                       ingredients |-> <<>>] : name \in Names}

\* The call returns.
CallExtract ==
    /\ extractor.pending
    /\ extractor' = [extractor EXCEPT
                        !.pending = FALSE,
                        !.called = TRUE,
                        !.ingredients = extract_ingredients(extractor.item_name)]
    /\ UNCHANGED <<data_file, pc, run, conn, db, qdrant, log, faults,
                   reindex_runs, resp, chunker, session>>

NextExtract == CallExtract

SpecExtract == InitExtract /\ [][NextExtract]_vars

Range(q) == {q[i] : i \in 1..Len(q)}

\* The (alias, record) pairs of a batch whose record has an item identifier.
Keyed(all_data) ==
    UNION {{[alias |-> all_data[g].alias, item |-> all_data[g].items[r]] :
               r \in {x \in 1..Len(all_data[g].items) :
                         all_data[g].items[x].itemSeq # ""}} :
           g \in 1..Len(all_data)}

ItemIds(all_data) == {e.item.itemSeq : e \in Keyed(all_data)}
AliasKeys(all_data) == {<<e.alias, e.item.itemSeq>> : e \in Keyed(all_data)}
IngredientKeys(all_data) ==
    UNION {{<<e.item.itemSeq, t>> : t \in Range(extract_ingredients(e.item.itemName))} :
              e \in Keyed(all_data)}
ChunkKeys(all_data) ==
    UNION {UNION {{<<e.item.itemSeq, m[2], n - 1>> :
                      n \in 1..Len(TextParts(e.item, m))} :
                  m \in Range(PresentSections(e.item))} :
              e \in Keyed(all_data)}

RowKey(row) == <<row.item_seq, row.section, row.part_idx>>
PointKey(point) ==
    <<PayloadGet(point.payload, "item_seq", None),
      PayloadGet(point.payload, "section", None),
      PayloadGet(point.payload, "part_idx", -1)>>

\* Runs 1..i of the log all ended without a call that raised.
CleanUpTo(i) == \A j \in 1..i : log[j].raised = {}

\* ------------------------------------------------------------------ claims

\* C1: idempotent re-ingest. After failure-free runs over the same data
\* file the stores hold one Product row per item, one Alias row per distinct
\* (alias, item), one Ingredient row per distinct (item, ingredient), one
\* chunk row per (item, section, part_idx) and, once ingest_all_json has run,
\* one point per (item, section, part_idx); and a second run of the same
\* script leaves the tables and the points exactly as the first run left them.
C1_IdempotentReingest ==
    \A i \in 1..Len(log) :
        CleanUpTo(i) =>
            LET e == log[i] IN
            /\ Len(e.db.products) = Cardinality(ItemIds(e.all_data))
            /\ Len(e.db.product_aliases) = Cardinality(AliasKeys(e.all_data))
            /\ Len(e.db.product_ingredients) = Cardinality(IngredientKeys(e.all_data))
            /\ Len(e.db.product_sections) = Cardinality(ChunkKeys(e.all_data))
            /\ {RowKey(row) : row \in Rows(e.db.product_sections)} = ChunkKeys(e.all_data)
            /\ Cardinality(e.points) =
                  IF \E j \in 1..i : log[j].mode = "all"
                  THEN Cardinality(ChunkKeys(e.all_data))
                  ELSE 0
            /\ Cardinality({pt.id : pt \in e.points}) = Cardinality(e.points)
            /\ (i > 1 /\ log[i - 1].mode = e.mode) =>
                  /\ e.db = log[i - 1].db
                  /\ e.points = log[i - 1].points

\* C1 witness: two failure-free runs of ingest_all_json have ended, over a
\* batch in which an item occurs twice, and chunk rows and points are stored.
C1_Witness ==
    /\ Len(log) = 2
    /\ CleanUpTo(2)
    /\ log[1].mode = "all" /\ log[2].mode = "all"
    /\ Cardinality(log[2].points) >= 2
    /\ Len(log[2].db.product_sections) >= 2
    /\ Cardinality(AliasKeys(log[2].all_data)) > Cardinality(ItemIds(log[2].all_data))

\* C2 (as claimed): alias accumulation. After a failure-free run of
\* ingest_all_json every point of an item carries in payload.aliases all the
\* aliases under which the batch lists the item.
C2_AliasesAccumulated ==
    \A i \in 1..Len(log) :
        (CleanUpTo(i) /\ log[i].mode = "all") =>
            \A pt \in log[i].points :
                Range(pt.payload.aliases) =
                    {e.alias : e \in {k \in Keyed(log[i].all_data) :
                                        k.item.itemSeq = pt.payload.item_seq}}

\* A group has just been committed: the loop stands before the first record
\* of the next group, or main() has returned.
AtCommit ==
    \/ pc = "run" /\ run.ri = 1 /\ run.gi > 1
    \/ pc = "idle" /\ log # <<>>

\* Only ingest_all_json has written to the stores.
OnlyIngestAll == run.mode = "all" /\ \A j \in 1..Len(log) : log[j].mode = "all"

\* RECREATE_QDRANT was unset in every run.
NeverRecreated == ~ run.recreate /\ \A j \in 1..Len(log) : ~ log[j].recreate

\* Each chunk row has exactly one point with its key, each point has a chunk
\* row with its key, and the id of a point is the formatted key.
OneToOne(tables, points) ==
    /\ \A row \in Rows(tables.product_sections) :
          Cardinality({pt \in points : PointKey(pt) = RowKey(row)}) = 1
    /\ \A pt \in points :
          /\ \E row \in Rows(tables.product_sections) : RowKey(row) = PointKey(pt)
          /\ pt.id = FormatId(PointKey(pt)[1], PointKey(pt)[2], PointKey(pt)[3])

\* No statement on the PostgreSQL connection has raised: the calls that
\* raised, if any, are embedding calls and index upserts.
NoDbError ==
    /\ \A f \in run.raised : f.kind # "db"
    /\ \A j \in 1..Len(log) : \A f \in log[j].raised : f.kind # "db"

C4_LaterRecordsPersisted ==
    \A i \in 1..Len(log) :
        \A f \in log[i].raised :
            \A g \in 1..Len(log[i].all_data) :
                \A r \in 1..Len(log[i].all_data[g].items) :
                    LET item == log[i].all_data[g].items[r] IN
                    (/\ g > f.gi \/ (g = f.gi /\ r > f.ri)
                     /\ item.itemSeq # "") =>
                        /\ \E row \in Rows(log[i].db.products) :
                              row.item_seq = item.itemSeq
                        /\ \E row \in Rows(log[i].db.product_aliases) :
                              /\ row.alias = log[i].all_data[g].alias
                              /\ row.item_seq = item.itemSeq

\* C5 (as claimed): closed section enumeration. Every chunk row and every
\* point of the collection has a section of the closed enumeration.
C5_SectionsClosed ==
    /\ \A row \in Rows(db.product_sections) \cup Rows(conn.tables.product_sections) :
          row.section \in Sections
    /\ \A pt \in qdrant.points : pt.payload.section \in Sections

\* The sentences of a text: the pieces between its delimiters.
Sentences(text) == Range(ReSplit(SentenceDelims, text))

\* The chunk is one single sentence, with or without its delimiter, that
\* does not fit the maximum, whole and untruncated but for the trimming.
SingleSentenceOverflow(chunk, text, max_length) ==
    \E sentence \in Sentences(text) :
        /\ Len(sentence) + 1 > max_length
        /\ \/ chunk = Strip(sentence)
           \/ \E d \in SentenceDelims : chunk = Strip(Append(sentence, d))

\* C6 (as claimed): chunk length bound. Every chunk returned by split_text
\* has length <= max_length, except a chunk that is one single sentence
\* longer than the maximum.
C6_ChunkLengthBound ==
    chunker.called =>
        \A i \in 1..Len(chunker.parts) :
            \/ Len(chunker.parts[i]) <= chunker.max_length
            \/ SingleSentenceOverflow(chunker.parts[i], chunker.text,
                                      chunker.max_length)

IsPrefix(p, t) == Len(p) <= Len(t) /\ SubSeq(t, 1, Len(p)) = p

RECURSIVE Reconstructs(_, _)
\* The text is the chunks in order, with nothing but whitespace before,
\* between and after them.
Reconstructs(text, chunks) ==
    IF chunks = <<>>
    THEN \A i \in 1..Len(text) : text[i] \in Whitespace
    ELSE \E k \in 0..Len(text) :
            /\ \A i \in 1..k : text[i] \in Whitespace
            /\ IsPrefix(Head(chunks), SubSeq(text, k + 1, Len(text)))
            /\ Reconstructs(SubSeq(text, k + 1 + Len(Head(chunks)), Len(text)),
                            Tail(chunks))

\* C7 (as claimed): chunk round-trip. The chunks, concatenated in order,
\* give back the text up to whitespace trimmed at the chunk boundaries.
C7_ChunkRoundTrip ==
    chunker.called => Reconstructs(chunker.text, chunker.parts)


\* ------------------------------------------------------ search: the claims

\* A request has been answered and the index was searched for it.
Searched == resp.status # 0 /\ resp.search_calls = 1

\* A filter of a request is given: read by presence it is not None, read
\* otherwise it is neither None nor empty.
Given(opt, empty, by_presence) ==
    IF by_presence THEN opt.some ELSE opt.some /\ opt.val # empty

\* How many of the three filters of a request are given.
FilterCount(request, by_presence) ==
    (IF Given(request.section, "", by_presence) THEN 1 ELSE 0)
    + (IF Given(request.alias, "", by_presence) THEN 1 ELSE 0)
    + (IF Given(request.ingredient, <<>>, by_presence) THEN 1 ELSE 0)

\* The filter is the conjunction of exactly one condition per filter of the
\* request that is given, and every result satisfies those filters.
FilterSemantics(by_presence) ==
    Searched =>
        LET request == resp.request
            filter == resp.filter
            conds == Range(filter.must)
        IN  /\ filter.should = <<>>
            /\ Len(filter.must) = FilterCount(request, by_presence)
            /\ filter.none <=> FilterCount(request, by_presence) = 0
            /\ Given(request.section, "", by_presence) =>
                  [key |-> "section", match |-> "value",
                   value |-> request.section.val] \in conds
            /\ Given(request.alias, "", by_presence) =>
                  [key |-> "aliases", match |-> "any",
                   value |-> request.alias.val] \in conds
            /\ Given(request.ingredient, <<>>, by_presence) =>
                  [key |-> "ingredients", match |-> "any",
                   value |-> request.ingredient.val] \in conds
            /\ \A i \in 1..Len(resp.results) :
                  /\ Given(request.section, "", by_presence) =>
                        resp.results[i].section = request.section.val
                  /\ Given(request.alias, "", by_presence) =>
                        request.alias.val \in Range(resp.results[i].aliases)
                  /\ Given(request.ingredient, <<>>, by_presence) =>
                        request.ingredient.val \in Range(resp.results[i].ingredients)
            /\ (FilterCount(request, by_presence) = 0 /\ resp.upstream = "ok"
                    /\ request.k >= 1) =>
                  Len(resp.hits) = IF Cardinality(qdrant.points) < request.k
                                   THEN Cardinality(qdrant.points)
                                   ELSE request.k

\* C8 as stated: the filter built for a search has exactly one condition per
\* filter of the request that is present (not None), joined by conjunction,
\* every result has the requested section, alias and ingredient, and with
\* all three absent every indexed point is a candidate.
C8_FilterPerPresentField == FilterSemantics(TRUE)

\* C8 amended: the same, where a filter counts as present only when it is
\* neither None nor the empty string.
C8_FilterPerNonEmptyField == FilterSemantics(FALSE)

\* A search that gave all three filters and returned a result.
C8_Witness ==
    /\ Searched
    /\ resp.status = 200
    /\ FilterCount(resp.request, FALSE) = 3
    /\ Len(resp.results) >= 1

\* The points the filter of the answered request admits.
Admitted == {pt \in qdrant.points : Matches(resp.filter, pt.payload)}

\* C9: for k > 0 a successful search returns at most k results, fewer only
\* when the filter admits fewer points, in the order of the index hits, with
\* total equal to the number of results; when the filter admits no point of
\* the collection the answer is an empty list with total 0 and status 200.
C9_ResultBound ==
    (resp.status # 0 /\ resp.request.k > 0) =>
        /\ resp.status = 200 =>
              /\ Len(resp.results) <= resp.request.k
              /\ Len(resp.results) = IF Cardinality(Admitted) < resp.request.k
                                     THEN Cardinality(Admitted)
                                     ELSE resp.request.k
              /\ resp.total = Len(resp.results)
              /\ Len(resp.results) = Len(resp.hits)
              /\ \A i \in 1..Len(resp.hits) :
                    resp.results[i] = ToResult(resp.hits[i])
        /\ (resp.upstream = "ok" /\ qdrant.exists /\ Admitted = {}) =>
              /\ resp.status = 200
              /\ resp.results = <<>>
              /\ resp.total = 0

\* A search with k = 2 that was cut to two different results although the
\* filter admits more points.
C9_Witness ==
    /\ resp.status = 200
    /\ resp.request.k = 2
    /\ Len(resp.results) = 2
    /\ resp.results[1] # resp.results[2]
    /\ Cardinality(Admitted) > 2

\* C10: a search request with k = 0 or negative k is answered with a
\* validation error (status 422) and neither the embedding provider nor the
\* index is called for it.
C10_NonPositiveKRejected ==
    (resp.status # 0 /\ resp.request.k <= 0) =>
        /\ resp.status = 422
        /\ resp.embed_calls = 0
        /\ resp.search_calls = 0

\* C11: when the embedding call or the index search of a search request
\* raises, the request ends with status 500 and never with a successful
\* response; a successful response means both calls were made and returned,
\* and for k >= 1 a successful empty response means the filter admitted no
\* point.
C11_FailuresNotSwallowed ==
    resp.status # 0 =>
        /\ resp.upstream # "ok" => resp.status = 500
        /\ resp.status = 200 =>
              /\ resp.upstream = "ok"
              /\ resp.embed_calls = 1
              /\ resp.search_calls = 1
        /\ (resp.status = 200 /\ resp.results = <<>> /\ resp.request.k >= 1) =>
              Admitted = {}

\* The index search raised for a request whose filter admits points.
C11_Witness ==
    /\ resp.status = 500
    /\ resp.upstream = "search"
    /\ resp.request.k >= 1
    /\ qdrant.exists
    /\ Admitted # {}

\* ------------------------------------------------- enumeration: the claims

\* An enumeration request has been handled over an existing collection.
Listed == resp.status # 0 /\ qdrant.exists

\* A sequence without duplicates that follows the given order.
SortedNoDuplicates(order, q) ==
    \A i, j \in 1..Len(q) :
        i < j => \E a, b \in 1..Len(order) :
                    a < b /\ order[a] = q[i] /\ order[b] = q[j]

\* C12: whatever the collection holds, list_aliases and list_ingredients
\* return a list holding exactly the alias (ingredient) values of the
\* payloads of the indexed points, without duplicates and sorted ascending,
\* and the pagination reads every point of the collection.
C12_EnumerationComplete ==
    Listed =>
        /\ resp.returned
        /\ resp.status = 200
        /\ Range(resp.values) = PayloadValues(qdrant.points, resp.endpoint)
        /\ SortedNoDuplicates(IF resp.endpoint = "aliases"
                              THEN AliasOrder ELSE IngredientOrder,
                              resp.values)
        /\ resp.read = qdrant.points

\* ------------------------------------------ collection bootstrap: the claim

\* The step in which ingest_all_json.main starts and bootstraps the
\* collection.
Bootstrap == pc = "idle" /\ pc' = "run" /\ run'.mode = "all"

\* The ids of the points of a collection.
PointIds(q) == {pt.id : pt \in q.points}

\* C13: with the recreate flag unset the bootstrap leaves an existing
\* collection and its points as they are and creates a missing collection
\* with 1536 dimensions and cosine distance; the collection or a point
\* disappears only in a bootstrap whose flag is set; and the collection
\* exists before any record of the run is processed.
C13_BootstrapNonDestructive ==
    [][/\ (Bootstrap /\ ~ run'.recreate) =>
              /\ qdrant.exists => qdrant' = qdrant
              /\ ~ qdrant.exists =>
                    qdrant' = [exists |-> TRUE, points |-> {},
                               size |-> 1536, distance |-> "Cosine"]
       /\ ((qdrant.exists /\ ~ qdrant'.exists)
              \/ ~ (PointIds(qdrant) \subseteq PointIds(qdrant'))) =>
              Bootstrap /\ run'.recreate
       /\ (pc' = "run" /\ run'.mode = "all") => qdrant'.exists]_vars

\* A second run of ingest_all_json has started with the flag unset over a
\* collection that holds points, and has processed no record yet.
C13_Witness ==
    /\ Len(log) >= 1
    /\ pc = "run"
    /\ run.mode = "all"
    /\ ~ run.recreate
    /\ run.gi = 1 /\ run.ri = 1
    /\ qdrant.points # {}

\* ----------------------------------------------------- payload: the claim

\* C14: every point the ingest has written carries in its payload the text
\* of its chunk, equal to the text of the chunk row with the same
\* (item_seq, section, part_idx), and an update date equal to the update
\* date of the product row of its item.
C14_PayloadFaithful ==
    \A pt \in qdrant.points :
        /\ "text" \in DOMAIN pt.payload
        /\ \A row \in Rows(conn.tables.product_sections) :
              RowKey(row) = PointKey(pt) => pt.payload.text = row.text
        /\ \A product \in Rows(conn.tables.products) :
              product.item_seq = pt.payload.item_seq =>
                  pt.payload.update_de = product.update_de

\* ------------------------------------------- ingredient extraction: the claim

\* Position i of a name opens a parenthesized group that ends at j: a "("
\* that lies in no earlier group, with the next ")" at j and at least one
\* character between them.
GroupAt(s, i, j) ==
    /\ i \in 1..Len(s) /\ j \in 1..Len(s)
    /\ s[i] = "(" /\ s[j] = ")" /\ j > i + 1
    /\ \A h \in (i + 1)..(j - 1) : s[h] # ")"
    /\ \A m \in 1..(i - 1) :
          s[m] = "(" => \E h \in (m + 1)..(i - 1) : s[h] = ")"

\* Positions a..b of a name hold a token: a longest stretch without comma,
\* middle dot or whitespace inside a group.
TokenAt(s, a, b) ==
    /\ a <= b
    /\ \E i \in 1..(a - 1), j \in (b + 1)..Len(s) :
          /\ GroupAt(s, i, j)
          /\ a - 1 = i \/ s[a - 1] \in {",", "·", " "}
          /\ b + 1 = j \/ s[b + 1] \in {",", "·", " "}
    /\ \A h \in a..b : s[h] \notin {",", "·", " "}

\* The tokens of a name in source order.
TokensOf(s) ==
    LET spans == {ab \in (1..Len(s)) \X (1..Len(s)) : TokenAt(s, ab[1], ab[2])}
        nth(k) == CHOOSE ab \in spans :
                     Cardinality({cd \in spans : cd[1] < ab[1]}) = k - 1
    IN  [k \in 1..Cardinality(spans) |-> SubSeq(s, nth(k)[1], nth(k)[2])]

\* C15: extract_ingredients returns, in source order and with duplicates
\* kept, exactly the non-empty tokens that splitting the content of each
\* parenthesized group on runs of comma, middle dot or whitespace gives; a
\* name without a parenthesized group gives the empty list.
C15_IngredientTokens ==
    extractor.called =>
        /\ extractor.ingredients = TokensOf(extractor.item_name)
        /\ (\A i \in 1..Len(extractor.item_name) :
                extractor.item_name[i] # "(") => extractor.ingredients = <<>>

\* A call over a name with two groups and a repeated token.
C15_Witness ==
    /\ extractor.called
    /\ Len(extractor.ingredients) = 2
    /\ extractor.ingredients[1] = extractor.ingredients[2]
    /\ Cardinality({i \in 1..Len(extractor.item_name) :
                       extractor.item_name[i] = "("}) = 2

\* ------------------------------------------ chunker edge cases: the claims

\* C16: split_text applied to the empty string returns the empty sequence
\* of chunks, for every maximum length.
C16_EmptyInputNoChunks ==
    (chunker.called /\ chunker.text = <<>>) => chunker.parts = <<>>

\* C17: for a non-empty text whose length is at or under the maximum,
\* split_text returns exactly one chunk, equal to the text with leading and
\* trailing whitespace trimmed.
C17_ShortInputTrimmed ==
    (chunker.called /\ chunker.text # <<>>
        /\ Len(chunker.text) <= chunker.max_length) =>
        chunker.parts = <<Strip(chunker.text)>>

\* ---------------------------------------------------- retries: the claim

\* C18, for the index search of a search request: a failure for a passing
\* reason is reported only after the call was tried again, and a failure
\* for a lasting reason is reported after the first attempt.
C18_TransientRetried ==
    resp.status # 0 =>
        /\ resp.upstream = "search_transient" => resp.search_calls > 1
        /\ resp.upstream = "search" => resp.search_calls = 1

\* ------------------------------------------------ re-ingest repairs: the claim

RECURSIVE CleanItems(_, _, _, _)
\* The records r.. of one alias group go through the body of the record
\* loop of ingest_all_json with no call raising.
CleanItems(st, alias, items, r) ==
    IF r > Len(items) THEN st
    ELSE IF items[r].itemSeq = "" THEN CleanItems(st, alias, items, r + 1)
    ELSE LET res == ProcessItem(st.tables, st.points, alias, items[r],
                                NoFail, TRUE)
         IN  CleanItems([tables |-> res.tables, points |-> res.points],
                        alias, items, r + 1)

RECURSIVE CleanGroups(_, _, _)
CleanGroups(st, all_data, g) ==
    IF g > Len(all_data) THEN st
    ELSE CleanGroups(CleanItems(st, all_data[g].alias, all_data[g].items, 1),
                     all_data, g + 1)

\* What one failure-free run of ingest_all_json over a batch leaves in
\* empty stores.
SingleCleanRun(all_data) ==
    CleanGroups([tables |-> EmptyTables, points |-> {}], all_data, 1)

\* Two tables hold the same rows, each once.
SameRows(t, u) == Rows(t) = Rows(u) /\ Len(t) = Len(u)

\* C19: when a run of ingest_all_json in which a call raised is followed by
\* a failure-free run of ingest_all_json over the same batch, the tables and
\* the points after the second run are those a single failure-free run over
\* the batch leaves.
C19_ReingestRepairs ==
    \A i \in 2..Len(log) :
        (/\ log[i - 1].mode = "all" /\ log[i - 1].raised # {}
         /\ log[i].mode = "all" /\ log[i].raised = {}
         /\ \A j \in 1..i : log[j].all_data = log[i].all_data) =>
            LET clean == SingleCleanRun(log[i].all_data) IN
            /\ SameRows(log[i].db.products, clean.tables.products)
            /\ SameRows(log[i].db.product_aliases, clean.tables.product_aliases)
            /\ SameRows(log[i].db.product_ingredients,
                        clean.tables.product_ingredients)
            /\ SameRows(log[i].db.product_sections, clean.tables.product_sections)
            /\ log[i].points = clean.points

\* A run in which an embedding call or an index upsert raised after chunk
\* rows were written has been followed by a failure-free run that added the
\* missing points.
C19_Witness ==
    /\ Len(log) = 2
    /\ log[1].mode = "all" /\ log[2].mode = "all"
    /\ \E f \in log[1].raised : f.kind \in {"embed", "upsert"}
    /\ log[2].raised = {}
    /\ Len(log[1].db.product_sections) > Cardinality(log[1].points)
    /\ Len(log[2].db.product_sections) = Cardinality(log[2].points)

\* ------------------------------------------- re-ingest of new text: the claim

\* C20: after a failure-free run of ingest_all_json, whatever was ingested
\* before, the chunk rows and the points stored for each (item, section) of
\* the batch are exactly those with part_idx 0..n-1 for the n chunks of the
\* current text, the rows carry the current text, and no row or point of an
\* earlier, longer text remains.
C20_ChunkSetReplaced ==
    \A i \in 1..Len(log) :
        (CleanUpTo(i) /\ log[i].mode = "all") =>
            LET e == log[i] IN
            /\ {RowKey(row) : row \in Rows(e.db.product_sections)}
                  = ChunkKeys(e.all_data)
            /\ {PointKey(pt) : pt \in e.points} = ChunkKeys(e.all_data)
            /\ \A k \in Keyed(e.all_data) :
                  \A m \in Range(PresentSections(k.item)) :
                      \A n \in 1..Len(TextParts(k.item, m)) :
                          \E row \in Rows(e.db.product_sections) :
                              /\ RowKey(row) = <<k.item.itemSeq, m[2], n - 1>>
                              /\ row.text = TextParts(k.item, m)[n]

\* -------------------------------------- enumeration terminates: the claim

\* C21: over every finite collection the pagination loop of an enumeration
\* endpoint ends, after no more scroll calls than the full pages of the
\* collection plus the empty or short page that ends it.
C21_EnumerationTerminates ==
    Listed =>
        /\ resp.returned
        /\ resp.pages <= (Cardinality(qdrant.points) \div PageLimit) + 1

\* ------------------------------------------- order independence: the claim

\* The calls main makes for one record, in its order: the product, the
\* alias, the ingredients when there are any, then per present section the
\* chunk rows and the points.
CallsOf(alias, item) ==
    LET secs == PresentSections(item)
        call(op, k) == [op |-> op, alias |-> alias, item |-> item, k |-> k]
        section_calls == [n \in 1..(2 * Len(secs)) |->
                            IF n % 2 = 1 THEN call("sections", (n + 1) \div 2)
                            ELSE call("points", n \div 2)]
    IN  <<call("product", 0), call("alias", 0)>>
        \o (IF extract_ingredients(item.itemName) # <<>>
            THEN <<call("ingredients", 0)>> ELSE <<>>)
        \o section_calls

\* The stores after one of these calls.
AfterCall(st, c) ==
    LET item_seq == c.item.itemSeq
        ingredients == extract_ingredients(c.item.itemName)
        secs == PresentSections(c.item)
    IN  CASE c.op = "product" ->
                [st EXCEPT !.tables = upsert_product(@, item_seq, c.item)]
          [] c.op = "alias" ->
                [st EXCEPT !.tables = insert_product_alias(@, c.alias, item_seq)]
          [] c.op = "ingredients" ->
                [st EXCEPT !.tables =
                    insert_product_ingredients(@, item_seq, ingredients)]
          [] c.op = "sections" ->
                [st EXCEPT !.tables =
                    upsert_product_sections(@, item_seq, secs[c.k][2],
                                            TextParts(c.item, secs[c.k]))]
          [] c.op = "points" ->
                [st EXCEPT !.points =
                    upsert_qdrant_points(@, c.alias, item_seq, secs[c.k][2],
                                         TextParts(c.item, secs[c.k]),
                                         ingredients, c.item.entpName,
                                         c.item.itemName)]

RECURSIVE AfterCalls(_, _)
AfterCalls(st, calls) ==
    IF calls = <<>> THEN st ELSE AfterCalls(AfterCall(st, Head(calls)), Tail(calls))

RECURSIVE Interleavings(_, _)
\* The ways to merge two call sequences, each keeping its own order.
Interleavings(a, b) ==
    IF a = <<>> THEN {b}
    ELSE IF b = <<>> THEN {a}
    ELSE {<<Head(a)>> \o w : w \in Interleavings(Tail(a), b)}
         \cup {<<Head(b)>> \o w : w \in Interleavings(a, Tail(b))}

\* The first run was a failure-free run of ingest_all_json and has ended.
FirstRunClean ==
    Len(log) >= 1 /\ log[1].mode = "all" /\ log[1].raised = {}

\* The batch of the first run holds exactly two records with an item
\* identifier, and their identifiers differ.
TwoDistinctItems ==
    /\ Cardinality(Keyed(log[1].all_data)) = 2
    /\ Cardinality(ItemIds(log[1].all_data)) = 2

\* C22: for two records with distinct item identifiers, every order and
\* every interleaving of the calls made for them leaves the same rows in
\* the four tables and the same points as the run did; and the alias rows
\* after any batch are the (alias, item) pairs of the batch, whatever the
\* order of its records.
C22_OrderIndependent ==
    FirstRunClean =>
        /\ {<<r.alias, r.item_seq>> : r \in Rows(log[1].db.product_aliases)}
              = AliasKeys(log[1].all_data)
        /\ (Len(log) = 1 /\ pc = "idle" /\ TwoDistinctItems) =>
              LET e1 == CHOOSE e \in Keyed(log[1].all_data) : TRUE
                  e2 == CHOOSE e \in Keyed(log[1].all_data) : e # e1
              IN  \A w \in Interleavings(CallsOf(e1.alias, e1.item),
                                         CallsOf(e2.alias, e2.item)) :
                          LET st == AfterCalls([tables |-> EmptyTables,
                                                points |-> {}], w)
                          IN  /\ SameRows(st.tables.products,
                                          log[1].db.products)
                              /\ SameRows(st.tables.product_aliases,
                                          log[1].db.product_aliases)
                              /\ SameRows(st.tables.product_ingredients,
                                          log[1].db.product_ingredients)
                              /\ SameRows(st.tables.product_sections,
                                          log[1].db.product_sections)
                              /\ st.points = log[1].points

\* A failure-free run over two records with distinct identifiers, listed
\* under different aliases, has ended with rows and points for both.
C22_Witness ==
    /\ FirstRunClean
    /\ Len(log) = 1 /\ pc = "idle"
    /\ TwoDistinctItems
    /\ Cardinality(AliasKeys(log[1].all_data)) = 2
    /\ Len(log[1].db.products) = 2
    /\ \A id \in ItemIds(log[1].all_data) :
          \E pt \in log[1].points : pt.payload.item_seq = id

\* ------------------------------------------- commit per group: the claims

\* Record r of group g of the current (or last) run has an item identifier
\* and went through the try block of main without an exception: no call
\* raised for it, and no statement of an earlier record of its group had
\* left the transaction aborted.
Succeeded(g, r) ==
    /\ run.all_data[g].items[r].itemSeq # ""
    /\ \A f \in run.raised :
          f.gi = g => /\ f.ri # r
                      /\ ~ (f.kind = "db" /\ f.ri < r)

\* The relational writes of a record are in the given tables.
Written(tables, alias, item) ==
    /\ \E p \in Rows(tables.products) : p.item_seq = item.itemSeq
    /\ \E a \in Rows(tables.product_aliases) :
          a.alias = alias /\ a.item_seq = item.itemSeq
    /\ \A m \in Range(PresentSections(item)) :
          \A n \in 1..Len(TextParts(item, m)) :
              \E row \in Rows(tables.product_sections) :
                  RowKey(row) = <<item.itemSeq, m[2], n - 1>>

\* C23: when a group starts nothing of the earlier groups is uncommitted,
\* and while group n is processed the relational writes of every
\* successfully processed record of groups 1..n-1 are committed.
C23_CommitPerGroup ==
    /\ (pc = "run" /\ run.ri = 1) => db = conn.tables
    /\ \A g \in 1..Len(run.all_data) :
          g < run.gi =>
              \A r \in 1..Len(run.all_data[g].items) :
                  Succeeded(g, r) =>
                      Written(db, run.all_data[g].alias, run.all_data[g].items[r])

\* ------------------------------------ record without identifier: the claim

\* The step of the record loop that meets a record without item identifier.
SkipStep ==
    /\ InGroup
    /\ run.ri <= Len(run.all_data[run.gi].items)
    /\ run.all_data[run.gi].items[run.ri].itemSeq = ""
    /\ run' # run

\* The records of a batch that have an item identifier, counted with their
\* repetitions.
KeyedPositions(all_data) ==
    {gr \in (1..Len(all_data)) \X (1..MaxRecords) :
        /\ gr[2] <= Len(all_data[gr[1]].items)
        /\ all_data[gr[1]].items[gr[2]].itemSeq # ""}

\* C24: the step that meets a record without item identifier writes nothing
\* to the relational store or the index, makes no embedding call, does not
\* count the record and raises nothing, and moves on to the next record;
\* and a failure-free run counts and writes every record that has an
\* identifier, those after such a record included.
C24_RecordWithoutIdSkipped ==
    /\ [][SkipStep =>
            /\ conn' = conn /\ db' = db /\ qdrant' = qdrant
            /\ run'.processed_count = run.processed_count
            /\ run'.embed_calls = run.embed_calls
            /\ run'.raised = run.raised
            /\ run'.ri = run.ri + 1 /\ run'.gi = run.gi]_vars
    /\ [](\A i \in 1..Len(log) :
            CleanUpTo(i) =>
                /\ log[i].processed_count
                      = Cardinality(KeyedPositions(log[i].all_data))
                /\ \A k \in Keyed(log[i].all_data) :
                      Written(log[i].db, k.alias, k.item))

\* A failure-free run has ended over a batch in which a record without
\* identifier comes before a record with one in the same group.
C24_Witness ==
    /\ Len(log) >= 1
    /\ log[1].raised = {}
    /\ log[1].processed_count >= 1
    /\ \E g \in 1..Len(log[1].all_data) :
          \E r \in 1..(Len(log[1].all_data[g].items) - 1) :
              /\ log[1].all_data[g].items[r].itemSeq = ""
              /\ log[1].all_data[g].items[r + 1].itemSeq # ""

\* ------------------------------- failure inside an alias group: the claim

\* The relational failures raised in group g of the running batch.
DbFailuresIn(g) == {f \in run.raised : f.gi = g /\ f.kind = "db"}

\* C25: when the relational write of one record of an alias group failed,
\* the other records of the group that were processed without error are in
\* the committed relational store once the group's commit has run.
C25_NeighboursCommitted ==
    \A g \in 1..Len(run.all_data) :
        (g < run.gi /\ DbFailuresIn(g) # {}) =>
            \A f \in DbFailuresIn(g) :
                \A r \in 1..Len(run.all_data[g].items) :
                    (r # f.ri /\ Succeeded(g, r)) =>
                        Written(db, run.all_data[g].alias,
                                run.all_data[g].items[r])

\* ------------------------------------ ingredient rows are derived: the claim

\* The ingredients stored in product_ingredients for an item.
IngredientRows(tables, item_seq) ==
    {row.ingredient : row \in {x \in Rows(tables.product_ingredients) :
                                   x.item_seq = item_seq}}

\* The points of an item.
PointsOf(points, item_seq) ==
    {pt \in points : PayloadGet(pt.payload, "item_seq", None) = item_seq}

\* C26: after failure-free runs of ingest_all_json, a changed display name
\* between them included, the ingredients stored in product_ingredients for
\* each item of the last batch are the tokens extracted from the item's
\* current display name, and so are the ingredients in the payload of each
\* of the item's points.
C26_IngredientsDerived ==
    \A i \in 1..Len(log) :
        (CleanUpTo(i) /\ \A j \in 1..i : log[j].mode = "all") =>
            \A k \in Keyed(log[i].all_data) :
                LET tokens == Range(extract_ingredients(k.item.itemName))
                IN  /\ IngredientRows(log[i].db, k.item.itemSeq) = tokens
                    /\ \A pt \in PointsOf(log[i].points, k.item.itemSeq) :
                          Range(PayloadGet(pt.payload, "ingredients", <<>>))
                              = tokens

\* ------------------------------------ payload ingredients a set: the claim

\* No value occurs twice in the sequence q.
NoDuplicates(q) == \A i, j \in 1..Len(q) : q[i] = q[j] => i = j

\* C27: the ingredients list in the payload of every point of the index
\* contains no token twice.
C27_PayloadIngredientsDistinct ==
    \A pt \in qdrant.points :
        NoDuplicates(PayloadGet(pt.payload, "ingredients", <<>>))

\* ------------------------------------------------ API-key protection: the claim

\* The key a request must carry under the environment of the response r.
ExpectedKey(r) ==
    IF r.app = "server" THEN GATEWAY_READ_KEY(r.env)
    ELSE Getenv(r.env, "PROJECT_API_KEY", None)

\* The response r answers a request that carried no x-api-key header or a
\* wrong one.
WithoutValidKey(r) ==
    /\ "header" \in DOMAIN r
    /\ ~ r.header.some \/ r.header.val # ExpectedKey(r)

\* C28: a request to a key-protected endpoint of either app that carries no
\* x-api-key header or a wrong one is answered with 401 and no embedding,
\* index or database call is made for it, under every environment.
C28_KeyProtected ==
    WithoutValidKey(resp) =>
        /\ resp.status = 401
        /\ resp.embed_calls = 0 /\ resp.index_calls = 0 /\ resp.db_calls = 0

\* ---------------------------------------------- chat history bound: the claim

\* The last n elements of q, or q when it is no longer than n.
Suffix(q, n) == IF Len(q) > n THEN SubSeq(q, Len(q) - n + 1, Len(q)) ELSE q

\* The step in which a question is run.
AskStep == session'.last.asked /\ session'.now = session.now + 1

\* C29: the chat history never holds more than HistoryLimit exchanges and
\* its exchanges are in chronological order; a question run appends exactly
\* one exchange, that of the question asked, and what it drops is dropped
\* from the oldest end.
C29_HistoryBound ==
    /\ [](/\ Len(session.chat_history) <= HistoryLimit
          /\ \A i, j \in 1..Len(session.chat_history) :
                i < j => session.chat_history[i].timestamp
                            < session.chat_history[j].timestamp)
    /\ [][AskStep =>
            LET after == session'.chat_history
                new_message == after[Len(after)]
            IN  /\ after # <<>>
                /\ new_message.user = session'.last.user_input
                /\ new_message.timestamp = session.now
                /\ after = Suffix(Append(session.chat_history, new_message),
                                  HistoryLimit)]_vars

\* A question was run on a full history, and the history is full after it.
C29_Witness ==
    /\ session.last.asked
    /\ Len(session.last.given) = HistoryLimit
    /\ Len(session.chat_history) = HistoryLimit
    /\ session.chat_history[1] = session.last.given[2]

\* ----------------------------------------------- failed question: the claim

\* C30: when the search node or the response-generation node recorded an
\* error in the last question run, the chat history the session stores
\* after the run is the history the run was given.
C30_FailedQuestionNotAppended ==
    (session.last.asked /\ session.last.error # "") =>
        session.chat_history = session.last.given

====
